---- MODULE Spec2Model ----
(***************************************************************************)
(* A model of bevy_libp2p_test: the gossip payload transform and its key   *)
(* ring (src/src/crypto.rs) and the networking engine thread with the two  *)
(* channels that connect it to the application (src/src/network.rs).       *)
(*                                                                         *)
(* SpecCrypto explores the transform; Spec and FairSpec explore the engine *)
(* loop, the application's sends and its per-frame drain.  SpecLock        *)
(* explores the ring under concurrent callers, SpecPeers the application's *)
(* peer set (src/src/peer.rs), SpecClose the shutdown path                 *)
(* (src/src/lib.rs) and SpecKeys the rings of two engines.                 *)
(***************************************************************************)
EXTENDS Integers, Sequences, FiniteSets, TLC

(***************************************************************************)
(* Bounds of the exploration.                                              *)
(***************************************************************************)
MaxRing == 2
MaxSent == 1
MaxEncodes == 2
MaxCommands == 2
MaxEvents == 2
MaxHosts == 2
MaxConns == 2

(***************************************************************************)
(* Program constants.                                                      *)
(***************************************************************************)
NonceSize == 12
TagSize == 16
ByteMod == 256
AAD == <<222, 173, 190, 239>>
IDENTIFY_PROTOCOL == "/bevy-p2p-demo/v1"
\* .take(3): the characters sampled for each half of a room code
CodeLen == 3
RELAY_PROTOCOL == "/libp2p/circuit/relay/0.2.0/hop"

(***************************************************************************)
(* Input domains.                                                          *)
(***************************************************************************)
\* Keys that add_key may be given, and the key of an unrelated room, which
\* is never given to add_key.
Keys == {1, 2}
ForeignKey == Cardinality(Keys) + 1
Plaintexts == {<<>>, <<0>>, <<255, 72>>}
NonceSeeds == {1, 2}
\* A nonce as generate_nonce returns it: NonceSize bytes.
NonceBytes(s) == [i \in 1..NonceSize |-> IF i = 1 THEN s ELSE (s * i) % ByteMod]
Nonces == {NonceBytes(s) : s \in NonceSeeds}
\* Payloads that no transform produced: every length up to the nonce size,
\* and the lengths around the smallest well-formed envelope.
JunkLens == (0..NonceSize) \cup {NonceSize + TagSize - 1, NonceSize + TagSize}
Junk(n) == [i \in 1..n |-> 0]

VARIABLES
    \* ---- crypto.rs ----
    keys,             \* KeyRing: the Vec<Aes256Gcm> behind the RwLock
    overflow_checks,  \* the build: TRUE = debug (checked arithmetic)
    sent,             \* log of outbound_transform calls
    dec,              \* the inbound_transform call just made and its outcome
                      \* (NoDecode when the last call was another one)
    rw,               \* the RwLock around the ring: the thread that holds
                      \* the write guard and the threads holding read guards
    th,               \* the threads that call into one shared ring: where
                      \* each is in its call, and what the call has seen
    returned,         \* the ring as the last add_key that returned left it
    remote            \* the ring of a second engine, started independently
                      \* by another call of setup_network (<<>>: none)

VARIABLES
    \* ---- network.rs ----
    engine,           \* the engine thread: "Running" (in the loop), "Break"
                      \* (left the loop on Quit), "Unwinding" (panicked),
                      \* "Stopped" / "Dead" (thread over, its values dropped)
    from_game,        \* command channel: to_network (Sender) -> from_game
    from_game_open,   \* the Receiver from_game is alive
    from_network,     \* event channel: to_game (Sender) -> from_network
    established,      \* peers with an open connection (the session's state)
    listening,        \* the session has listeners (listen_on was called)
    draining,         \* process_network_events is inside its while loop
    last,             \* the step just taken: the call or event and its outcome
    requests,         \* the calls the session received from the Host arm,
                      \* one sequence of calls per Host command taken
                      \* (gone with the thread and its session)
    conns             \* the session's open connections, one record each:
                      \* the peer, the connection's number, and whether
                      \* identify has shown the peer to speak our protocol

VARIABLES
    \* ---- the application (menu.rs and the caller of setup_network) ----
    game_state,       \* GameState: "Menu", then "EnterHostMenu" (the
                      \* transition is set, OnEnter has not run), "HostMenu"
    manager,          \* what setup_network returned to its caller: "none"
                      \* (it has not returned), "Ok" (a NetworkManager), "Err"
    network_events,   \* Events<NetworkEvent>: the events written by
                      \* process_network_events that peer_add_remove's
                      \* EventReader has not read yet
    peers             \* the Peers resource (peer.rs): a HashSet<PeerId>

lvars == <<rw, th, returned>>
rvars == <<remote>>
cvars == <<keys, overflow_checks, sent, dec, lvars, rvars>>
svars == <<requests, conns>>
evars == <<engine, from_game, from_game_open, from_network, established,
           listening, draining, last, svars>>
uvars == <<network_events, peers>>
avars == <<game_state, manager, uvars>>
vars == <<cvars, evars, avars>>

(***************************************************************************)
(* usize arithmetic.  A usize value v is represented by the integer r it   *)
(* has when its bits are read as two's complement: v = r for r >= 0 and    *)
(* v = 2^64 + r for r < 0.  Wrapping subtraction of small values is then   *)
(* plain subtraction, and the unsigned order is ULe.                       *)
(***************************************************************************)
WrappingSub(a, b) == a - b
ULe(a, b) == IF (a >= 0) = (b >= 0) THEN a <= b ELSE a >= 0

Range(s) == {s[i] : i \in 1..Len(s)}

RECURSIVE SumFrom(_, _)
SumFrom(s, i) == IF i > Len(s) THEN 0 ELSE (s[i] + SumFrom(s, i + 1)) % ByteMod
SumBytes(s) == SumFrom(s, 1)

(***************************************************************************)
(* The AEAD (Aes256Gcm).  The cipher is a length-preserving stream cipher  *)
(* followed by a TagSize-byte tag over key, nonce, associated data and     *)
(* ciphertext; a tag authenticates under exactly one key.                  *)
(***************************************************************************)
KeyStream(key, nonce, i) == (key * 7 + nonce[1] * 3 + i) % ByteMod
Mac(key, nonce, aad, body) ==
    (SumBytes(nonce) + SumBytes(aad) + SumBytes(body) + Len(body)) % ByteMod
Tag(key, nonce, aad, body) ==
    LET m == Mac(key, nonce, aad, body)
    IN  [j \in 1..TagSize |-> (m + j * key) % ByteMod]

Encrypt(key, nonce, aad, msg) ==
    LET body == [i \in 1..Len(msg) |-> (msg[i] + KeyStream(key, nonce, i)) % ByteMod]
    IN  body \o Tag(key, nonce, aad, body)

Decrypt(key, nonce, aad, ct) ==
    IF Len(ct) < TagSize
    THEN [ok |-> FALSE, data |-> <<>>]
    ELSE LET n    == Len(ct) - TagSize
             body == SubSeq(ct, 1, n)
             tag  == SubSeq(ct, n + 1, Len(ct))
         IN  IF tag = Tag(key, nonce, aad, body)
             THEN [ok |-> TRUE,
                   data |-> [i \in 1..n |->
                               (body[i] - KeyStream(key, nonce, i)) % ByteMod]]
             ELSE [ok |-> FALSE, data |-> <<>>]

(***************************************************************************)
(* DataEncryptor::outbound_transform: encrypt under the LAST key of the    *)
(* ring with a fresh nonce and append the nonce.                           *)
(***************************************************************************)
\* A faulty variant: first() for last().
EncryptionKeyFirst(ring) == ring[1]
\* keys.last().unwrap()
EncryptionKey(ring) == ring[Len(ring)]

\* A faulty variant: the nonce is written in front of the ciphertext.
outbound_transform_NonceFirst(ring, data, nonce) ==
    nonce \o Encrypt(EncryptionKey(ring), nonce, AAD, data)
outbound_transform(ring, data, nonce) ==
    Encrypt(EncryptionKey(ring), nonce, AAD, data) \o nonce

(***************************************************************************)
(* DataEncryptor::inbound_transform.                                       *)
(*   data_size = len - NonceSize   (usize: panics on overflow in a build   *)
(*                                  with overflow checks, wraps otherwise) *)
(*   nonce = &data[data_size..]    (panics when data_size > len)           *)
(*   keys.iter().rev().find_map(decrypt) or the "no corresponding key"     *)
(*   error.                                                                *)
(* The result also lists the ring positions tried, in the order tried.     *)
(***************************************************************************)
\* A faulty variant: iter() without rev().
KeyOrderOldestFirst(ring) == [i \in 1..Len(ring) |-> i]
\* iter().rev(): the positions of the ring from the last to the first.
KeyOrder(ring) == [i \in 1..Len(ring) |-> Len(ring) + 1 - i]

RECURSIVE find_map(_, _, _, _, _)
find_map(ring, order, nonce, body, tried) ==
    IF order = <<>>
    THEN [kind |-> "NoKey", data |-> <<>>, tried |-> tried]
    ELSE LET r == Decrypt(ring[Head(order)], nonce, AAD, body)
         IN  IF r.ok
             THEN [kind |-> "Ok", data |-> r.data,
                   tried |-> Append(tried, Head(order))]
             ELSE find_map(ring, Tail(order), nonce, body,
                           Append(tried, Head(order)))

PanicResult == [kind |-> "Panic", data |-> <<>>, tried |-> <<>>]

inbound_transform(ring, raw, checks) ==
    IF checks /\ Len(raw) < NonceSize
    THEN PanicResult                       \* attempt to subtract with overflow
    ELSE LET data_size == WrappingSub(Len(raw), NonceSize)
         IN  IF ~ULe(data_size, Len(raw))
             THEN PanicResult              \* slice start index out of range
             ELSE find_map(ring, KeyOrder(ring),
                           SubSeq(raw, data_size + 1, Len(raw)),
                           SubSeq(raw, 1, data_size), <<>>)

(***************************************************************************)
(* The transform as a state machine.                                       *)
(***************************************************************************)
NoDecode == [input |-> <<>>, origin |-> "none", plain |-> <<>>, ring |-> <<>>,
             result |-> [kind |-> "None", data |-> <<>>, tried |-> <<>>]]

\* A faulty variant: the ring is seeded with a second key.
DataEncryptorNewSpare(k) == <<k, ForeignKey>>
\* DataEncryptor::new(): a ring of exactly one freshly generated key.
DataEncryptorNew(k) == <<k>>

\* The callers of one shared ring: an administrative caller that holds a
\* KeyRing clone and rotates keys, and two callers of the transform.
Threads == {"admin", "enc", "dec"}
\* A thread outside any call.
Idle == [pc |-> "idle", k |-> 0, must |-> <<>>, lasts |-> {}, seen |-> <<>>,
         torn |-> FALSE, used |-> 0, kind |-> "None"]
\* Arc::new(RwLock::new(vec![..])): nobody holds the lock.
RwLockNew == [writer |-> "none", readers |-> {}]

InitLock ==
    /\ rw = RwLockNew
    /\ th = [t \in Threads |-> Idle]
    /\ returned = keys
    /\ remote = <<>>

InitKeys ==
    /\ \E k \in Keys : keys = DataEncryptorNew(k)
    /\ overflow_checks \in BOOLEAN
    /\ sent = <<>>
    /\ dec = NoDecode
    /\ InitLock

\* A faulty variant: insert at the front.
AddKeyFront(ring, k) == <<k>> \o ring
\* KeyRing::add_key: push at the end.
AddKey(ring, k) == Append(ring, k)

add_key(k) ==
    /\ Len(keys) < MaxRing
    /\ keys' = AddKey(keys, k)
    /\ dec' = NoDecode
    /\ UNCHANGED <<overflow_checks, sent, lvars, rvars>>
    /\ UNCHANGED <<evars, avars>>

\* One outbound_transform call, `nonce` being what generate_nonce(OsRng)
\* returned; the log keeps the ring it ran against.
EncodeUpTo(limit, p, nonce) ==
    /\ Len(sent) < limit
    /\ sent' = Append(sent, [wire  |-> outbound_transform(keys, p, nonce),
                             plain |-> p,
                             ring  |-> keys])
    /\ dec' = NoDecode
    /\ UNCHANGED <<keys, overflow_checks, lvars, rvars>>
    /\ UNCHANGED <<evars, avars>>

Encode(p, nonce) == EncodeUpTo(MaxSent, p, nonce)

\* One inbound_transform call on `raw`; origin and plain say where raw came from.
Decode(raw, origin, p) ==
    /\ dec' = [input |-> raw, origin |-> origin, plain |-> p, ring |-> keys,
               result |-> inbound_transform(keys, raw, overflow_checks)]
    /\ UNCHANGED <<keys, overflow_checks, sent, lvars, rvars>>
    /\ UNCHANGED <<evars, avars>>

\* a message this transform produced earlier
DecodeOwn ==
    \E i \in 1..Len(sent) : Decode(sent[i].wire, "own", sent[i].plain)

\* a message of a peer whose key was never added to this ring
DecodeForeign ==
    \E p \in Plaintexts, nonce \in Nonces :
        Decode(outbound_transform(<<ForeignKey>>, p, nonce), "foreign", p)

\* bytes that are no envelope at all
DecodeJunk ==
    \E n \in JunkLens : Decode(Junk(n), "junk", <<>>)

NextCrypto ==
    \/ \E k \in Keys : add_key(k)
    \/ \E p \in Plaintexts, nonce \in Nonces : Encode(p, nonce)
    \/ DecodeOwn
    \/ DecodeForeign
    \/ DecodeJunk

\* Sequences of encodes, with key rotation in between.
NextEncodes ==
    \/ \E k \in Keys : add_key(k)
    \/ \E p \in Plaintexts, nonce \in Nonces : EncodeUpTo(MaxEncodes, p, nonce)

(***************************************************************************)
(* The ring shared between threads: KeyRing is Arc<RwLock<Vec<Aes256Gcm>>> *)
(* and every clone reaches the same Vec.  add_key takes the write guard    *)
(* for the push; the two transforms take a read guard for the statement    *)
(* that reads the ring.  Each guard is a temporary of one statement and is *)
(* dropped at its end.  A thread that reads the Vec while another holds    *)
(* the write guard would race with the push: what it reads is torn.        *)
(***************************************************************************)
\* A faulty variant: a read guard is handed out while a writer holds the lock.
CanReadAlways(lock) == TRUE
\* RwLock::read returns once no writer holds the lock.
CanRead(lock) == lock.writer = "none"
\* RwLock::write returns once nobody holds the lock.
CanWrite(lock) == lock.writer = "none" /\ lock.readers = {}

InCall(t) == th[t].pc # "idle" /\ th[t].pc # "returned"

\* The fixed message the decoding thread is given, encrypted under key k.
LockPlain == <<255, 72>>
LockWire(k) == outbound_transform(<<k>>, LockPlain, NonceBytes(1))

\* KeyRing::add_key(key) is called.
AddBegin(k) ==
    /\ ~InCall("admin")
    /\ Len(keys) < MaxRing
    /\ th' = [th EXCEPT !["admin"] = [Idle EXCEPT !.pc = "write", !.k = k]]
    /\ UNCHANGED <<keys, rw, returned>>
    /\ UNCHANGED <<overflow_checks, sent, dec, rvars>>
    /\ UNCHANGED <<evars, avars>>

\* self.0.write().unwrap() returns the write guard.
WriteLock ==
    /\ th["admin"].pc = "write"
    /\ CanWrite(rw)
    /\ rw' = [rw EXCEPT !.writer = "admin"]
    /\ th' = [th EXCEPT !["admin"].pc = "push"]
    /\ UNCHANGED <<keys, returned>>
    /\ UNCHANGED <<overflow_checks, sent, dec, rvars>>
    /\ UNCHANGED <<evars, avars>>

\* .push(Aes256Gcm::new(&key)); a call that is running has from now on had
\* this key as the last key of the ring.
VecPush ==
    /\ th["admin"].pc = "push"
    /\ keys' = AddKey(keys, th["admin"].k)
    /\ th' = [t \in Threads |->
                IF t = "admin" THEN [th[t] EXCEPT !.pc = "unlock"]
                ELSE IF InCall(t)
                     THEN [th[t] EXCEPT !.lasts = @ \cup {th["admin"].k}]
                     ELSE th[t]]
    /\ UNCHANGED <<rw, returned>>
    /\ UNCHANGED <<overflow_checks, sent, dec, rvars>>
    /\ UNCHANGED <<evars, avars>>

\* The guard is dropped at the end of the statement and add_key returns.
AddReturn ==
    /\ th["admin"].pc = "unlock"
    /\ rw' = [rw EXCEPT !.writer = "none"]
    /\ th' = [th EXCEPT !["admin"].pc = "returned"]
    /\ returned' = keys
    /\ UNCHANGED keys
    /\ UNCHANGED <<overflow_checks, sent, dec, rvars>>
    /\ UNCHANGED <<evars, avars>>

\* outbound_transform is called (the nonce is drawn before the lock is
\* asked for); inbound_transform is called on a message under key k (the
\* nonce is split off before the lock is asked for).
ReadBegin(t, k) ==
    /\ ~InCall(t)
    /\ th' = [th EXCEPT ![t] = [Idle EXCEPT !.pc = "read", !.k = k,
                                            !.must = returned,
                                            !.lasts = {EncryptionKey(keys)}]]
    /\ UNCHANGED <<keys, rw, returned>>
    /\ UNCHANGED <<overflow_checks, sent, dec, rvars>>
    /\ UNCHANGED <<evars, avars>>

\* self.keys.0.read().expect(..) returns a read guard.
ReadLock(t) ==
    /\ th[t].pc = "read"
    /\ CanRead(rw)
    /\ rw' = [rw EXCEPT !.readers = @ \cup {t}]
    /\ th' = [th EXCEPT ![t].pc = "locked"]
    /\ UNCHANGED <<keys, returned>>
    /\ UNCHANGED <<overflow_checks, sent, dec, rvars>>
    /\ UNCHANGED <<evars, avars>>

\* .last().unwrap().encrypt(&nonce, payload): the ring is read, the guard
\* is dropped, the call returns.
EncodeLocked ==
    /\ th["enc"].pc = "locked"
    /\ th' = [th EXCEPT !["enc"].pc = "returned",
                        !["enc"].seen = keys,
                        !["enc"].torn = (rw.writer # "none"),
                        !["enc"].used = EncryptionKey(keys),
                        !["enc"].kind = "Ok"]
    /\ rw' = [rw EXCEPT !.readers = @ \ {"enc"}]
    /\ UNCHANGED <<keys, returned>>
    /\ UNCHANGED <<overflow_checks, sent, dec, rvars>>
    /\ UNCHANGED <<evars, avars>>

\* .iter().rev().find_map(..): the ring is read, the guard is dropped, the
\* call returns.
DecodeLocked ==
    /\ th["dec"].pc = "locked"
    /\ th' = [th EXCEPT !["dec"].pc = "returned",
                        !["dec"].seen = keys,
                        !["dec"].torn = (rw.writer # "none"),
                        !["dec"].kind =
                            inbound_transform(keys, LockWire(th["dec"].k),
                                              overflow_checks).kind]
    /\ rw' = [rw EXCEPT !.readers = @ \ {"dec"}]
    /\ UNCHANGED <<keys, returned>>
    /\ UNCHANGED <<overflow_checks, sent, dec, rvars>>
    /\ UNCHANGED <<evars, avars>>

\* One step of a thread inside the ring's code.
LockStep ==
    \/ \E k \in Keys : AddBegin(k)
    \/ WriteLock
    \/ VecPush
    \/ AddReturn
    \/ ReadBegin("enc", 0)
    \/ \E k \in Keys : ReadBegin("dec", k)
    \/ \E t \in {"enc", "dec"} : ReadLock(t)
    \/ EncodeLocked
    \/ DecodeLocked

(***************************************************************************)
(* The engine thread and the two channels (network.rs).                    *)
(***************************************************************************)
Peers == {"p1", "p2"}
\* A String is the sequence of its characters.
RoomCodes == {<<"A", "B", "3", "-", "K", "9", "Q">>}
Addrs == {"/ip4/127.0.0.1/tcp/4001"}
\* info.protocols of an identify::Event::Received
ProtocolLists == { {},
                   {"/ipfs/id/1.0.0", RELAY_PROTOCOL},
                   {"/ipfs/id/1.0.0", IDENTIFY_PROTOCOL} }
\* SwarmEvent arms with an empty body
SilentKinds == {"IncomingConnection", "IncomingConnectionError",
                "OutgoingConnectionError", "ExpiredListenAddr",
                "ListenerClosed", "ListenerError", "Dialing"}

\* GameEvent<FromGame>
Quit == [type |-> "Quit", room_code |-> <<>>]
Host(rc) == [type |-> "Host", room_code |-> rc]
Game == [type |-> "Game", room_code |-> <<>>]
Commands == {Quit, Game} \cup {Host(rc) : rc \in RoomCodes}

\* NetworkEvent<ToGame>::Admin(NetworkAdminEvent)
Connected(p) == [type |-> "Connected", arg |-> p]
Disconnected(p) == [type |-> "Disconnected", arg |-> p]
NewNetworkAddress(a) == [type |-> "NewNetworkAddress", arg |-> a]

\* The record of a step: the operation, what it was given or took (a
\* command, an event, a session event), and whether it succeeded.
NoArg == [type |-> "none"]
Step(op, arg, ok) == [op |-> op, arg |-> arg, ok |-> ok]
SwarmStep(type, arg, protocols) ==
    Step("swarm", [type |-> type, arg |-> arg, protocols |-> protocols], TRUE)

\* setup_network returned Ok: the session is built, both channels are
\* created and empty, the thread is spawned and in its loop.
InitEngine ==
    /\ engine = "Running"
    /\ from_game = <<>>
    /\ from_game_open = TRUE
    /\ from_network = <<>>
    /\ established = {}
    /\ listening = FALSE
    /\ draining = FALSE
    /\ last = Step("setup_network", NoArg, TRUE)
    /\ requests = <<>>
    /\ conns = {}

\* The application holds the NetworkManager and shows the main menu.
InitApp ==
    /\ game_state = "Menu"
    /\ manager = "Ok"
    /\ network_events = <<>>
    /\ peers = {}

(***************************************************************************)
(* setup_network itself.  Its steps in program order; a step that can fail *)
(* returns the error with `?` (the noise configuration panics instead),    *)
(* and everything built so far is dropped.                                 *)
(***************************************************************************)
\* A faulty variant: the channels are made and the thread is spawned before
\* the DHT bootstrap is tried.
SetupStagesSpawnEarly ==
    <<"dns_tcp", "dns_ws", "noise", "bootnodes", "gossip", "swarm",
      "channels", "spawn", "bootstrap">>
SetupStages ==
    <<"dns_tcp", "dns_ws", "noise", "bootnodes", "gossip", "swarm",
      "bootstrap", "channels", "spawn">>
\* the steps followed by `?`
ErrStages == {"dns_tcp", "dns_ws", "bootnodes", "gossip", "bootstrap"}
\* the steps unwrapped with expect
PanicStages == {"noise"}

\* The steps completed when the step `fail` fails ("none": no step fails).
StagesDone(fail) ==
    IF fail = "none"
    THEN {SetupStages[i] : i \in 1..Len(SetupStages)}
    ELSE LET at == CHOOSE i \in 1..Len(SetupStages) : SetupStages[i] = fail
         IN  {SetupStages[i] : i \in 1..(at - 1)}

\* Before setup_network is called: no session, no channel, no thread.
InitSetup ==
    /\ engine = "Starting"
    /\ from_game = <<>>
    /\ from_game_open = FALSE
    /\ from_network = <<>>
    /\ established = {}
    /\ listening = FALSE
    /\ draining = FALSE
    /\ last = Step("main", NoArg, TRUE)
    /\ requests = <<>>
    /\ conns = {}
    /\ game_state = "Menu"
    /\ manager = "none"
    /\ network_events = <<>>
    /\ peers = {}

setup_network(fail) ==
    /\ manager = "none"
    /\ LET done == StagesDone(fail)
       IN  /\ engine' = IF "spawn" \in done THEN "Running" ELSE "Failed"
           /\ from_game_open' = ("channels" \in done /\ "spawn" \in done)
    /\ manager' = IF fail = "none" THEN "Ok"
                  ELSE IF fail \in PanicStages THEN "Panicked" ELSE "Err"
    /\ last' = Step("setup_network", [type |-> fail], fail = "none")
    /\ UNCHANGED <<from_game, from_network, established, listening, draining,
                   requests, conns, game_state, uvars>>
    /\ UNCHANGED cvars

(***************************************************************************)
(* The channels (async_std::channel::unbounded): send appends unless the   *)
(* channel is closed; a receive takes the oldest message.                  *)
(***************************************************************************)
\* A faulty variant: a channel of capacity one, whose send fails when full.
ChannelSendBounded(queue, open, msg) ==
    IF open /\ Len(queue) < 1
    THEN [ok |-> TRUE, queue |-> Append(queue, msg)]
    ELSE [ok |-> FALSE, queue |-> queue]
ChannelSend(queue, open, msg) ==
    IF open
    THEN [ok |-> TRUE, queue |-> Append(queue, msg)]
    ELSE [ok |-> FALSE, queue |-> queue]

\* A faulty variant: a receive that takes the newest message.
ChannelRecvNewest(queue) ==
    [msg |-> queue[Len(queue)], queue |-> SubSeq(queue, 1, Len(queue) - 1)]
ChannelRecv(queue) == [msg |-> Head(queue), queue |-> Tail(queue)]

\* The application runs and holds its NetworkManager.
AppAlive == manager = "Ok" /\ game_state # "Panicked"

\* NetworkManager::send_to_network, from the application or any clone.
send_to_network(c) ==
    /\ AppAlive
    /\ from_game_open => Len(from_game) < MaxCommands
    /\ LET r == ChannelSend(from_game, from_game_open, c)
       IN  /\ from_game' = r.queue
           /\ last' = Step("send_to_network", c, r.ok)
    /\ UNCHANGED <<engine, from_game_open, from_network, established,
                   listening, draining>>
    /\ UNCHANGED <<cvars, avars, svars>>

\* process_network_events: entering the system, once per frame.
process_network_events ==
    /\ AppAlive
    /\ ~draining
    /\ draining' = TRUE
    /\ last' = Step("process_network_events", NoArg, TRUE)
    /\ UNCHANGED <<engine, from_game, from_game_open, from_network,
                   established, listening>>
    /\ UNCHANGED <<cvars, avars, svars>>

\* One evaluation of `while let Ok(event) = from_network.try_recv()`:
\* forward the oldest event, or leave the loop when there is none.
try_recv ==
    /\ draining
    /\ IF from_network # <<>>
       THEN LET r == ChannelRecv(from_network)
            IN  /\ from_network' = r.queue
                /\ last' = Step("try_recv", r.msg, TRUE)
                /\ UNCHANGED draining
       ELSE /\ draining' = FALSE
            /\ last' = Step("try_recv", NoArg, FALSE)
            /\ UNCHANGED from_network
    /\ UNCHANGED <<engine, from_game, from_game_open, established, listening>>
    /\ UNCHANGED <<cvars, avars, svars>>

(***************************************************************************)
(* The hosting flow (menu.rs): the Host button sets the HostMenu state,    *)
(* and on entering it setup_host_menu makes a room code, sends it in a     *)
(* Host command and shows it.                                              *)
(***************************************************************************)
UPPER ==
    <<"A", "B", "C", "D", "E", "F", "G", "H", "I", "J", "K", "L",
      "M", "N", "O", "P", "Q", "R", "S", "T", "U", "V", "W", "X",
      "Y", "Z">>
LOWER ==
    <<"a", "b", "c", "d", "e", "f", "g", "h", "i", "j", "k", "l",
      "m", "n", "o", "p", "q", "r", "s", "t", "u", "v", "w", "x",
      "y", "z">>
DIGITS ==
    <<"0", "1", "2", "3", "4", "5", "6", "7", "8", "9">>
\* rand::distributions::Alphanumeric samples one of these characters.
ALPHANUMERIC == UPPER \o LOWER \o DIGITS

\* What the six samples may be: the first and last character of each class
\* in every combination, and every character of the alphabet at least once.
SampleChars == {"A", "Z", "a", "z", "0", "9"}
Samples ==
    [1..(CodeLen + CodeLen) -> SampleChars]
        \cup {[i \in 1..(CodeLen + CodeLen) |-> ALPHANUMERIC[c]] :
                 c \in 1..Len(ALPHANUMERIC)}

\* A faulty variant: the character is kept as sampled.
to_uppercase_kept(c) == <<c>>
\* char::to_uppercase: the characters of the upper-case form of c.
to_uppercase(c) ==
    IF \E i \in 1..Len(LOWER) : LOWER[i] = c
    THEN <<UPPER[CHOOSE i \in 1..Len(LOWER) : LOWER[i] = c]>>
    ELSE <<c>>

\* .map(char::to_uppercase).flatten().collect::<String>()
RECURSIVE UpperFlatten(_)
UpperFlatten(chars) ==
    IF chars = <<>> THEN <<>>
    ELSE to_uppercase(Head(chars)) \o UpperFlatten(Tail(chars))

\* format!("{}-{}", code_1, code_2)
RoomCode(code_1, code_2) == code_1 \o <<"-">> \o code_2
\* format!("Room Code: {}", room_code)
ROOM_CODE_LABEL == <<"R", "o", "o", "m", " ", "C", "o", "d", "e", ":", " ">>
RoomCodeText(room_code) == ROOM_CODE_LABEL \o room_code

\* click_host_button, on Interaction::Pressed in the Menu state.
click_host_button ==
    /\ AppAlive
    /\ game_state = "Menu"
    /\ game_state' = "EnterHostMenu"
    /\ last' = Step("click_host_button", NoArg, TRUE)
    /\ UNCHANGED <<engine, from_game, from_game_open, from_network,
                   established, listening, draining, manager, uvars>>
    /\ UNCHANGED <<cvars, svars>>

\* setup_host_menu, OnEnter(GameState::HostMenu): `samples` are the six
\* characters the two sample_iter calls return.  The send is unwrapped with
\* expect("send worked").
setup_host_menu(samples) ==
    /\ AppAlive
    /\ game_state = "EnterHostMenu"
    /\ from_game_open => Len(from_game) < MaxCommands
    /\ LET code_1    == UpperFlatten(SubSeq(samples, 1, CodeLen))
           code_2    == UpperFlatten(SubSeq(samples, CodeLen + 1, Len(samples)))
           room_code == RoomCode(code_1, code_2)
           r         == ChannelSend(from_game, from_game_open, Host(room_code))
       IN  /\ from_game' = r.queue
           /\ game_state' = IF r.ok THEN "HostMenu" ELSE "Panicked"
           /\ last' = Step("setup_host_menu",
                           [type |-> "Host", room_code |-> room_code,
                            samples |-> samples,
                            text |-> RoomCodeText(room_code)],
                           r.ok)
    /\ UNCHANGED <<engine, from_game_open, from_network, established,
                   listening, draining, manager, uvars>>
    /\ UNCHANGED <<cvars, svars>>

\* OnEnter(GameState::HostMenu) runs setup_host_menu, whatever it samples.
OnEnterHostMenu ==
    /\ game_state = "EnterHostMenu"
    /\ \E samples \in Samples : setup_host_menu(samples)

(***************************************************************************)
(* The loop body, Either::Left: one session event.                         *)
(***************************************************************************)
\* to_game.send(e).await.unwrap() for each e of evs.  The application keeps
\* its NetworkManager (a resource) for its whole life, so the send succeeds.
Push(evs) ==
    /\ Len(from_network) + Len(evs) <= MaxEvents
    /\ from_network' = from_network \o evs

\* A faulty variant: the identify arm without its protocol test.
IdentifyArmAlways(peer_id, protocols) == <<Connected(peer_id)>>
\* handle_behaviour_event, the identify arm: what it sends.
IdentifyArm(peer_id, protocols) ==
    IF IDENTIFY_PROTOCOL \in protocols THEN <<Connected(peer_id)>> ELSE <<>>

\* The ConnectionEstablished arm: its send is commented out.
EstablishedArm(peer_id) == <<>>

\* The NewListenAddr arm: a log line only.
NewListenAddrArm(address) == <<>>

ConnectionEstablished(p) ==
    /\ engine = "Running"
    /\ established' = established \cup {p}
    /\ Push(EstablishedArm(p))
    /\ last' = SwarmStep("ConnectionEstablished", p, {})
    /\ UNCHANGED <<engine, from_game, from_game_open, listening, draining>>
    /\ UNCHANGED <<cvars, avars, svars>>

\* A faulty variant: the arm reports nothing.
ClosedArmSilent(peer_id) == <<>>
\* The ConnectionClosed arm: it sends Disconnected(peer_id).
ClosedArm(peer_id) == <<Disconnected(peer_id)>>

ConnectionClosed(p) ==
    /\ engine = "Running"
    /\ p \in established
    /\ established' = established \ {p}
    /\ Push(ClosedArm(p))
    /\ last' = SwarmStep("ConnectionClosed", p, {})
    /\ UNCHANGED <<engine, from_game, from_game_open, listening, draining>>
    /\ UNCHANGED <<cvars, avars, svars>>

NewListenAddr(a) ==
    /\ engine = "Running"
    /\ listening
    /\ Push(NewListenAddrArm(a))
    /\ last' = SwarmStep("NewListenAddr", a, {})
    /\ UNCHANGED <<engine, from_game, from_game_open, established, listening,
                   draining>>
    /\ UNCHANGED <<cvars, avars, svars>>

SilentSwarmEvent(kind) ==
    /\ engine = "Running"
    /\ last' = SwarmStep(kind, "", {})
    /\ UNCHANGED <<engine, from_game, from_game_open, from_network,
                   established, listening, draining>>
    /\ UNCHANGED <<cvars, avars, svars>>

IdentifyReceived(p, protocols) ==
    /\ engine = "Running"
    /\ p \in established
    /\ Push(IdentifyArm(p, protocols))
    /\ last' = SwarmStep("IdentifyReceived", p, protocols)
    /\ UNCHANGED <<engine, from_game, from_game_open, established, listening,
                   draining>>
    /\ UNCHANGED <<cvars, avars, svars>>

\* Every other BehaviourEvent, the Kad StartProviding result included.
OtherBehaviourEvent ==
    /\ engine = "Running"
    /\ last' = SwarmStep("Behaviour", "", {})
    /\ UNCHANGED <<engine, from_game, from_game_open, from_network,
                   established, listening, draining>>
    /\ UNCHANGED <<cvars, avars, svars>>

(***************************************************************************)
(* The loop body, Either::Right: one command.                              *)
(***************************************************************************)
\* A faulty variant: the Quit arm falls through to the next iteration.
QuitArmContinue == "Running"
\* The Quit arm: `break`.
QuitArm == "Break"

\* GameEvent::Admin(GameAdminEvent::Quit) => break
HandleQuit ==
    /\ engine = "Running"
    /\ from_game # <<>>
    /\ LET r == ChannelRecv(from_game)
       IN  /\ r.msg.type = "Quit"
           /\ from_game' = r.queue
           /\ engine' = QuitArm
           /\ last' = Step("command", r.msg, TRUE)
    /\ UNCHANGED <<from_game_open, from_network, established, listening,
                   draining>>
    /\ UNCHANGED <<cvars, avars, svars>>

\* The addresses and the key prefix of the Host arm.
RELAY_CIRCUIT_ADDR ==
    "/dns4/p2p.favil.org/tcp/4001/p2p/12D3KooWJAmx46jdsLbvsEJmUAnQ44Yj4iHmgdsDD4BEYvALnFy8/p2p-circuit"
TCP_ADDR == "/ip4/0.0.0.0/tcp/0"
WS_ADDR == "/ip4/0.0.0.0/tcp/0/ws"
BOOTSTRAP_ADDR == "/dns4/p2p.favil.org/tcp/4001"
ROOM_KEY_PREFIX ==
    <<"/", "b", "e", "v", "y", "-", "l", "i", "b", "p", "2", "p", "-",
      "d", "e", "m", "o", "/", "r", "o", "o", "m", "/">>

\* format!("/bevy-libp2p-demo/room/{}", room_code)
RoomKey(room_code) == ROOM_KEY_PREFIX \o room_code

SessionCall(call, arg) == [call |-> call, arg |-> arg]

\* A faulty variant: the dial is issued before the listens.
HostCallsDialFirst(room_code) ==
    << SessionCall("dial", BOOTSTRAP_ADDR),
       SessionCall("listen_on", RELAY_CIRCUIT_ADDR),
       SessionCall("listen_on", TCP_ADDR),
       SessionCall("listen_on", WS_ADDR),
       SessionCall("start_providing", RoomKey(room_code)) >>
\* The calls the Host arm makes on the session, in program order.
HostCalls(room_code) ==
    << SessionCall("listen_on", RELAY_CIRCUIT_ADDR),
       SessionCall("listen_on", TCP_ADDR),
       SessionCall("listen_on", WS_ADDR),
       SessionCall("dial", BOOTSTRAP_ADDR),
       SessionCall("start_providing", RoomKey(room_code)) >>

\* GameEvent::Admin(GameAdminEvent::Host { room_code }): three listen_on, one
\* dial, one start_providing, each unwrapped with expect.  fail_at = 0: every
\* call returns Ok; fail_at = i: the i-th call returns Err and its expect
\* panics, so the calls after it are not made.
HandleHost(fail_at) ==
    /\ engine = "Running"
    /\ from_game # <<>>
    /\ Len(requests) < MaxHosts
    /\ LET r      == ChannelRecv(from_game)
           calls  == HostCalls(r.msg.room_code)
           made   == IF fail_at = 0 THEN calls ELSE SubSeq(calls, 1, fail_at)
           worked == IF fail_at = 0 THEN calls ELSE SubSeq(calls, 1, fail_at - 1)
       IN  /\ r.msg.type = "Host"
           /\ from_game' = r.queue
           /\ requests' = Append(requests, made)
           /\ listening' = (listening \/ \E i \in 1..Len(worked) :
                                            worked[i].call = "listen_on")
           /\ engine' = IF fail_at = 0 THEN engine ELSE "Unwinding"
           /\ last' = Step("command", r.msg, fail_at = 0)
    /\ UNCHANGED <<from_game_open, from_network, established, draining, conns>>
    /\ UNCHANGED <<cvars, avars>>

\* GameEvent::Game(_) => todo!()
HandleGame ==
    /\ engine = "Running"
    /\ from_game # <<>>
    /\ LET r == ChannelRecv(from_game)
       IN  /\ r.msg.type = "Game"
           /\ from_game' = r.queue
           /\ last' = Step("command", r.msg, FALSE)
    /\ engine' = "Unwinding"
    /\ UNCHANGED <<from_game_open, from_network, established, listening,
                   draining>>
    /\ UNCHANGED <<cvars, avars, svars>>

\* The thread's closure returns or unwinds: swarm, from_game and to_game are
\* dropped, which closes the command channel.
\* (A faulty variant: the receiver outlives the thread.)
ReceiverKept(open) == open
ReceiverDropped(open) == FALSE

ThreadEnd ==
    /\ engine \in {"Break", "Unwinding"}
    /\ engine' = IF engine = "Break" THEN "Stopped" ELSE "Dead"
    /\ from_game_open' = ReceiverDropped(from_game_open)
    /\ established' = {}
    /\ listening' = FALSE
    /\ requests' = <<>>
    /\ conns' = {}
    /\ last' = Step("thread_end", NoArg, TRUE)
    /\ UNCHANGED <<from_game, from_network, draining>>
    /\ UNCHANGED <<cvars, avars>>

SwarmEvent ==
    \/ \E p \in Peers : ConnectionEstablished(p)
    \/ \E p \in Peers : ConnectionClosed(p)
    \/ \E a \in Addrs : NewListenAddr(a)
    \/ \E kind \in SilentKinds : SilentSwarmEvent(kind)
    \/ \E p \in Peers, protocols \in ProtocolLists : IdentifyReceived(p, protocols)
    \/ OtherBehaviourEvent

Command ==
    \/ HandleQuit
    \/ \E fail_at \in 0..Len(HostCalls(<<>>)) : HandleHost(fail_at)
    \/ HandleGame

NextEngine ==
    \/ \E c \in Commands : send_to_network(c)
    \/ process_network_events
    \/ try_recv
    \/ SwarmEvent
    \/ Command
    \/ ThreadEnd

(***************************************************************************)
(* The peer set of the application (peer.rs) and the session's connections *)
(* one by one.  A peer may have several connections at a time; the session *)
(* reports ConnectionEstablished and ConnectionClosed for each connection, *)
(* and identify runs on each connection.                                   *)
(***************************************************************************)
ConnIds == 1..MaxConns
Conn(p, c, identified) == [peer |-> p, id |-> c, identified |-> identified]
ConnsOf(p) == {x \in conns : x.peer = p}

\* SwarmEvent::ConnectionEstablished for a new connection c to peer p.
OpenConnection(p, c) ==
    /\ engine = "Running"
    /\ \A x \in ConnsOf(p) : x.id # c
    /\ conns' = conns \cup {Conn(p, c, FALSE)}
    /\ established' = established \cup {p}
    /\ Push(EstablishedArm(p))
    /\ last' = SwarmStep("ConnectionEstablished", p, {})
    /\ UNCHANGED <<engine, from_game, from_game_open, listening, draining,
                   requests>>
    /\ UNCHANGED <<cvars, avars>>

\* identify::Event::Received on connection x.
IdentifyOnConnection(x, protocols) ==
    /\ engine = "Running"
    /\ x \in conns
    /\ conns' = (conns \ {x})
                  \cup {Conn(x.peer, x.id,
                             x.identified \/ IDENTIFY_PROTOCOL \in protocols)}
    /\ Push(IdentifyArm(x.peer, protocols))
    /\ last' = SwarmStep("IdentifyReceived", x.peer, protocols)
    /\ UNCHANGED <<engine, from_game, from_game_open, established, listening,
                   draining, requests>>
    /\ UNCHANGED <<cvars, avars>>

\* SwarmEvent::ConnectionClosed for connection x; the peer's other
\* connections stay open.
CloseConnection(x) ==
    /\ engine = "Running"
    /\ x \in conns
    /\ conns' = conns \ {x}
    /\ established' = IF ConnsOf(x.peer) = {x} THEN established \ {x.peer}
                      ELSE established
    /\ Push(ClosedArm(x.peer))
    /\ last' = SwarmStep("ConnectionClosed", x.peer, {})
    /\ UNCHANGED <<engine, from_game, from_game_open, listening, draining,
                   requests>>
    /\ UNCHANGED <<cvars, avars>>

\* process_network_events, one turn of its loop with an event received:
\* network_events.send(event).
forward_event ==
    /\ AppAlive
    /\ from_network # <<>>
    /\ Len(network_events) < MaxEvents
    /\ LET r == ChannelRecv(from_network)
       IN  /\ from_network' = r.queue
           /\ network_events' = Append(network_events, r.msg)
           /\ last' = Step("try_recv", r.msg, TRUE)
    /\ UNCHANGED <<engine, from_game, from_game_open, established, listening,
                   draining, svars>>
    /\ UNCHANGED <<cvars, game_state, manager, peers>>

\* The match of peer_add_remove on one event.
peer_event(set, event) ==
    IF event.type = "Connected" THEN set \cup {event.arg}
    ELSE IF event.type = "Disconnected"
         THEN IF event.arg \in set THEN set \ {event.arg} ELSE set
         ELSE set

\* for event in event.iter() { .. }
RECURSIVE peer_events(_, _)
peer_events(set, events) ==
    IF events = <<>> THEN set
    ELSE peer_events(peer_event(set, Head(events)), Tail(events))

\* peer_add_remove, once per frame: every event not read yet.
peer_add_remove ==
    /\ AppAlive
    /\ network_events # <<>>
    /\ peers' = peer_events(peers, network_events)
    /\ network_events' = <<>>
    /\ last' = Step("peer_add_remove", NoArg, TRUE)
    /\ UNCHANGED <<engine, from_game, from_game_open, from_network,
                   established, listening, draining, svars>>
    /\ UNCHANGED <<cvars, game_state, manager>>

NextPeers ==
    \/ \E p \in Peers, c \in ConnIds : OpenConnection(p, c)
    \/ \E x \in conns, protocols \in ProtocolLists :
          IdentifyOnConnection(x, protocols)
    \/ \E x \in conns : CloseConnection(x)
    \/ forward_event
    \/ peer_add_remove

(***************************************************************************)
(* Shutdown (lib.rs): send_quit_on_close sends Quit for every              *)
(* WindowCloseRequested event it reads and unwraps the result with         *)
(* expect("Send to open channel should succeed").                          *)
(***************************************************************************)
\* One turn of `for event in events.iter()`.  The engine thread runs on its
\* own between two turns, also between two turns of the same frame.
send_quit_on_close ==
    /\ AppAlive
    /\ from_game_open => Len(from_game) < MaxCommands
    /\ LET r == ChannelSend(from_game, from_game_open, Quit)
       IN  /\ from_game' = r.queue
           /\ game_state' = IF r.ok THEN game_state ELSE "Panicked"
           /\ last' = Step("send_quit_on_close", Quit, r.ok)
    /\ UNCHANGED <<engine, from_game_open, from_network, established,
                   listening, draining, manager, uvars>>
    /\ UNCHANGED <<cvars, svars>>

\* Commands and session events of an engine, without the application's
\* drain.
NextKeys ==
    \/ \E c \in Commands : send_to_network(c)
    \/ Command
    \/ SwarmEvent
    \/ ThreadEnd

NextClose ==
    \/ send_quit_on_close
    \/ \E c \in Commands : send_to_network(c)
    \/ Command
    \/ ThreadEnd

(***************************************************************************)
(* Specifications.                                                         *)
(***************************************************************************)
\* The transform alone.
InitCrypto == InitKeys /\ InitEngine /\ InitApp
SpecCrypto == InitCrypto /\ [][NextCrypto]_vars

\* The outbound transform alone, called several times.
SpecEncodes == InitCrypto /\ [][NextEncodes]_vars

\* The ring and its lock, with three threads calling concurrently.
SpecLock == InitCrypto /\ [][LockStep]_vars

\* The engine, the application's sends and its per-frame drain.
Init ==
    /\ keys = DataEncryptorNew(1)
    /\ overflow_checks = TRUE
    /\ sent = <<>>
    /\ dec = NoDecode
    /\ InitLock
    /\ InitEngine
    /\ InitApp
Next == NextEngine
Spec == Init /\ [][Next]_vars

\* The hosting flow and the engine's handling of its command.
NextMenu ==
    \/ click_host_button
    \/ OnEnterHostMenu
    \/ \E fail_at \in 0..Len(HostCalls(<<>>)) : HandleHost(fail_at)
    \/ ThreadEnd
SpecMenu == Init /\ [][NextMenu]_vars

\* The session's connections, the drain and the application's peer set.
SpecPeers == Init /\ [][NextPeers]_vars

\* Close requests, the application's other commands and the engine's
\* handling of commands.
SpecClose == Init /\ [][NextClose]_vars

\* Two engines built by two calls of setup_network, each with the ring of
\* its own DataEncryptor::new(), whose key is whatever generate_key(OsRng)
\* returned to it; the steps are those of the first engine.  The key of the
\* first engine is called 1, as in Init; the key of the second is any key,
\* the same one included.
InitEngines ==
    /\ keys = DataEncryptorNew(1)
    /\ overflow_checks = TRUE
    /\ sent = <<>>
    /\ dec = NoDecode
    /\ rw = RwLockNew
    /\ th = [t \in Threads |-> Idle]
    /\ returned = keys
    /\ \E k \in Keys : remote = DataEncryptorNew(k)
    /\ InitEngine
    /\ InitApp
SpecKeys == InitEngines /\ [][NextKeys]_vars

\* The same from the call of setup_network on.
NextSetup ==
    \/ \E fail \in ErrStages \cup PanicStages \cup {"none"} : setup_network(fail)
    \/ NextEngine
InitStart ==
    /\ keys = DataEncryptorNew(1)
    /\ overflow_checks = TRUE
    /\ sent = <<>>
    /\ dec = NoDecode
    /\ InitLock
    /\ InitSetup
SpecSetup == InitStart /\ [][NextSetup]_vars

\* The same, with the scheduling the threads give: the application's drain
\* loop keeps running once entered, the engine thread takes a queued command
\* and finishes once it left the loop.
FairSpec ==
    /\ Init /\ [][Next]_vars
    /\ WF_vars(try_recv)
    /\ WF_vars(Command)
    /\ WF_vars(ThreadEnd)

\* The scheduling of the loop by itself.  Each iteration awaits
\* futures::future::select(swarm.select_next_some(),
\* from_game.select_next_some()), which polls its first argument first and
\* returns it when it is ready: the loop keeps taking what is ready, and it
\* takes a command only at a poll where the session has no event ready.
LoopFairSpec ==
    /\ Init /\ [][Next]_vars
    /\ WF_vars(try_recv)
    /\ WF_vars(SwarmEvent \/ Command)
    /\ WF_vars(ThreadEnd)
(***************************************************************************)
(* Properties of the transform (checked under SpecCrypto).                 *)
(***************************************************************************)
Decoded == dec # NoDecode
Front(s) == SubSeq(s, 1, Len(s) - 1)

\* C1: round trip.  Against a ring as DataEncryptor::new() built it (one
\* key), inbound_transform of a message whose data is outbound_transform(p)
\* succeeds and returns p.
C1_RoundTrip ==
    (Decoded /\ dec.origin = "own" /\ Len(keys) = 1)
        => (dec.result.kind = "Ok" /\ dec.result.data = dec.plain)

C1_Witness ==
    /\ Decoded /\ dec.origin = "own" /\ Len(keys) = 1
    /\ Len(dec.plain) = 2
    /\ dec.result.kind = "Ok"

\* C2: key rotation.  A message encoded earlier still decodes to its
\* plaintext under the ring as it is now, whatever add_key calls came in
\* between; and a message encoded when k2 was the last key of a ring whose
\* earlier keys all differ from k2 decodes against a ring holding k2 alone
\* and against no ring made of those earlier keys only (the whole earlier
\* ring, or one of its keys alone).
C2_KeyRotation ==
    /\ (Decoded /\ dec.origin = "own")
           => (dec.result.kind = "Ok" /\ dec.result.data = dec.plain)
    /\ \A i \in 1..Len(sent) :
         LET m  == sent[i]
             k2 == m.ring[Len(m.ring)]
         IN  /\ inbound_transform(keys, m.wire, overflow_checks).kind = "Ok"
             /\ inbound_transform(keys, m.wire, overflow_checks).data = m.plain
             /\ inbound_transform(<<k2>>, m.wire, overflow_checks).kind = "Ok"
             /\ (Len(m.ring) >= 2 /\ k2 \notin Range(Front(m.ring)))
                   => /\ inbound_transform(Front(m.ring), m.wire,
                                           overflow_checks).kind = "NoKey"
                      /\ \A j \in 1..(Len(m.ring) - 1) :
                            inbound_transform(<<m.ring[j]>>, m.wire,
                                              overflow_checks).kind = "NoKey"

C2_Witness ==
    /\ Len(sent) = 1 /\ Len(sent[1].ring) = 2
    /\ sent[1].ring[1] # sent[1].ring[2]
    /\ Decoded /\ dec.origin = "own" /\ dec.result.kind = "Ok"
    /\ dec.result.tried = <<2>>

\* C3: unknown key.  inbound_transform tries the ring's keys from the newest
\* to the oldest and returns the plaintext of the first one that
\* authenticates the payload; a message encoded under a key that was never
\* added yields the no-matching-key error after every key was tried, not a
\* panic; the call leaves the ring as it was.
C3_UnknownKey ==
    Decoded =>
      LET r == dec.result
          n == Len(dec.ring)
      IN  /\ keys = dec.ring
          /\ \A j \in 1..Len(r.tried) : r.tried[j] = n + 1 - j
          /\ r.kind = "Ok" =>
                /\ r.tried # <<>>
                /\ r.data = dec.plain
                /\ LET cut == Len(dec.input) - NonceSize
                       nonce == SubSeq(dec.input, cut + 1, Len(dec.input))
                       body == SubSeq(dec.input, 1, cut)
                   IN  \A j \in 1..Len(r.tried) :
                          Decrypt(dec.ring[r.tried[j]], nonce, AAD, body).ok
                              <=> j = Len(r.tried)
          /\ r.kind = "NoKey" => Len(r.tried) = n
          /\ dec.origin = "foreign" => r.kind = "NoKey"

C3_Witness ==
    /\ Decoded /\ dec.origin = "foreign"
    /\ Len(keys) = 2 /\ keys[1] # keys[2]
    /\ dec.result.kind = "NoKey"
    /\ dec.result.tried = <<2, 1>>

\* C4: malformed input.  A payload shorter than the nonce is answered with an
\* error value that is no panic and no decryption failure.
C4_MalformedRejected ==
    (Decoded /\ Len(dec.input) < NonceSize)
        => dec.result.kind \notin {"Panic", "NoKey", "Ok"}

\* C15: the key ring.  The ring starts as one key and is never empty; a
\* step changes it only by appending one key at its end (add_key), so it is
\* always the initial key followed by the added keys in call order; a step
\* that encodes or decodes leaves it as it was.
C15_KeyRingInvariant ==
    /\ Len(keys) = 1
    /\ [][/\ Len(keys) >= 1 /\ Len(keys') >= 1
          /\ \/ keys' = keys
             \/ /\ Len(keys') = Len(keys) + 1
                /\ SubSeq(keys', 1, Len(keys)) = keys
                /\ sent' = sent /\ dec' = NoDecode
          /\ (sent' # sent \/ dec' # NoDecode) => keys' = keys]_vars

\* Two different keys in call order, and a decode after the second was added.
C15_Witness ==
    /\ Len(keys) = 2 /\ keys[1] # keys[2]
    /\ Decoded /\ dec.ring = keys

\* The nonce a wire message carries: its last NonceSize bytes.
WireNonce(wire) == SubSeq(wire, Len(wire) - NonceSize + 1, Len(wire))

Sending == last.op = "send_to_network"
InQueue(queue, e) == \E i \in 1..Len(queue) : queue[i] = e
\* This step appended e to the event channel.
Pushed(e) ==
    /\ Len(from_network') > Len(from_network)
    /\ \E i \in (Len(from_network) + 1)..Len(from_network') : from_network'[i] = e

\* C5: identify gating.  The engine sends Connected(peer) only in the step
\* that handles an identify Received event of that peer whose protocol list
\* holds the expected protocol; no other step (ConnectionEstablished, an
\* identify without the protocol) sends one.
C5_IdentifyGating ==
    [][\A p \in Peers :
          Pushed(Connected(p))
              => /\ last'.op = "swarm"
                 /\ last'.arg.type = "IdentifyReceived"
                 /\ last'.arg.arg = p
                 /\ IDENTIFY_PROTOCOL \in last'.arg.protocols]_vars

C5_Witness ==
    /\ last.op = "swarm"
    /\ last.arg.type = "IdentifyReceived"
    /\ IDENTIFY_PROTOCOL \in last.arg.protocols
    /\ from_network # <<>>
    /\ from_network[Len(from_network)] = Connected(last.arg.arg)

\* A Quit was sent before this state: it is still queued, or the loop has
\* taken it.
QuitSent == InQueue(from_game, Quit) \/ engine \in {"Break", "Stopped"}

\* C6 as stated: once Admin(Quit) was sent, every later send_to_network
\* call fails.
C6_QuitClosesAtOnce ==
    [][(QuitSent /\ last'.op = "send_to_network") => ~last'.ok]_vars

\* C6 as amended: once the engine thread has taken Admin(Quit) from the
\* channel and ended, every later send_to_network call fails and enqueues
\* nothing.
C6_QuitClosesWhenStopped ==
    [][(engine = "Stopped" /\ last'.op = "send_to_network")
          => (~last'.ok /\ from_game' = from_game)]_vars

C6_Witness ==
    /\ engine = "Stopped"
    /\ Sending /\ ~last.ok

\* C7: once the engine has handled Host and the session has reported a new
\* listen address, a NewNetworkAddress event eventually is in the event
\* channel (unless the loop has stopped running in the meantime).
C7_HostLeadsToAddress ==
    (listening /\ last.op = "swarm" /\ last.arg.type = "NewListenAddr")
        ~> \/ \E a \in Addrs : InQueue(from_network, NewNetworkAddress(a))
           \/ engine # "Running"

\* C8: a send_to_network call that fails was made when the loop was no
\* longer running and the receiving end was closed; a call made while the
\* loop is running succeeds and appends its command to the command channel.
C8_SendFailsOnlyWhenStopped ==
    [][last'.op = "send_to_network"
          => /\ ~last'.ok => (engine # "Running" /\ ~from_game_open)
             /\ engine = "Running"
                   => (last'.ok /\ from_game' = Append(from_game, last'.arg))]_vars

C8_Witness ==
    /\ engine = "Running"
    /\ Sending /\ last.ok
    /\ Len(from_game) = 2
    /\ from_game[2] = last.arg
    /\ from_game[1] # from_game[2]

\* C9: a drain that was entered ends, whatever the engine does meanwhile.
C9_DrainTerminates == draining ~> ~draining

\* C10: both channels are first-in first-out.  A step changes the command
\* channel only by appending the command sent or by removing its oldest
\* command, which is the one the loop handles; it changes the event channel
\* only by appending what the engine sends or by removing its oldest event,
\* which is the one the drain forwards.
C10_Fifo ==
    [][/\ \/ from_game' = from_game
          \/ /\ last'.op = "send_to_network" /\ last'.ok
             /\ from_game' = Append(from_game, last'.arg)
          \/ /\ last'.op = "command"
             /\ from_game # <<>>
             /\ last'.arg = Head(from_game)
             /\ from_game' = Tail(from_game)
       /\ \/ from_network' = from_network
          \/ /\ last'.op = "swarm"
             /\ Len(from_network') > Len(from_network)
             /\ SubSeq(from_network', 1, Len(from_network)) = from_network
          \/ /\ last'.op = "try_recv" /\ last'.ok
             /\ from_network # <<>>
             /\ last'.arg = Head(from_network)
             /\ from_network' = Tail(from_network)]_vars

C10_Witness ==
    /\ last.op = "try_recv" /\ last.ok
    /\ from_network # <<>>
    /\ last.arg # from_network[1]

\* C11: Quit is terminal.  The step that handles Quit leaves the loop, and
\* once the loop was left that way (and then the thread has ended) no step
\* handles a command, although commands may still be queued or be added, no
\* step handles a session event, no step adds an event to the event
\* channel, and the loop never runs again.
C11_QuitTerminal ==
    [][/\ (last'.op = "command" /\ last'.arg.type = "Quit")
             => engine' = "Break"
       /\ (engine = "Break" \/ engine = "Stopped")
             => /\ last'.op \notin {"command", "swarm"}
                /\ engine' \in {"Break", "Stopped"}
                /\ Len(from_network') <= Len(from_network)
                /\ (from_game' = from_game
                    \/ (last'.op = "send_to_network"
                        /\ from_game' = Append(from_game, last'.arg)))]_vars

\* Quit was handled with a command queued behind it, which stays unhandled
\* after the thread has ended.
C11_Witness ==
    /\ engine = "Stopped"
    /\ from_game # <<>>
    /\ last.op = "thread_end"

\* C12: Disconnected on every close.  A step of the running loop that
\* handles ConnectionClosed for a peer appends exactly one event to the
\* event channel, Disconnected(peer), whatever was sent about that peer
\* before.
C12_DisconnectedOnClose ==
    [][(last'.op = "swarm" /\ last'.arg.type = "ConnectionClosed")
          => from_network' = Append(from_network, Disconnected(last'.arg.arg))]_vars

\* A close while the other peer stays connected: the channel ends with the
\* closed peer's Disconnected.
C12_Witness ==
    /\ last.op = "swarm" /\ last.arg.type = "ConnectionClosed"
    /\ established # {}
    /\ from_network = <<Disconnected(last.arg.arg)>>

\* C13: per-event failures are not fatal.  A step of the running loop that
\* handles a connection error, a listener error, or a Host command one of
\* whose listen, dial or provide calls fails, leaves the loop running.
C13_FailuresNonFatal ==
    [][(/\ engine = "Running"
        /\ \/ /\ last'.op = "swarm"
              /\ last'.arg.type \in {"IncomingConnectionError",
                                     "OutgoingConnectionError",
                                     "ListenerError", "ListenerClosed"}
           \/ /\ last'.op = "command"
              /\ last'.arg.type = "Host"
              /\ ~last'.ok)
          => engine' = "Running"]_vars

\* C14: construction failure starts nothing.  When setup_network has
\* returned an error, no thread was spawned, the caller holds no channel and
\* nothing was queued, and that stays so; when it has returned a
\* NetworkManager, the loop runs and the command channel is open and empty,
\* as is the event channel.
C14_ConstructionFailure ==
    /\ manager = "Err"
          => /\ engine = "Failed"
             /\ ~from_game_open
             /\ from_game = <<>> /\ from_network = <<>>
             /\ ~draining
             /\ last.op = "setup_network" /\ ~last.ok
    /\ manager = "Ok" => engine \notin {"Starting", "Failed"}
    /\ (last.op = "setup_network" /\ last.ok)
          => /\ manager = "Ok"
             /\ engine = "Running"
             /\ from_game_open
             /\ from_game = <<>> /\ from_network = <<>>

\* The last fallible step, the DHT bootstrap, has failed.
C14_Witness ==
    /\ manager = "Err"
    /\ last.op = "setup_network"
    /\ last.arg.type = "bootstrap"

\* C17: the room code.  Whatever the six sampled characters, the room code
\* setup_host_menu makes has 7 characters, a hyphen in the middle and an
\* upper-case letter or a digit everywhere else; that string is the one sent
\* in the Host command (queued when the send succeeds) and the one shown
\* after "Room Code: ".
C17_RoomCodeFormat ==
    [][last'.op = "setup_host_menu"
          => LET rc == last'.arg.room_code
             IN  /\ Len(rc) = 7
                 /\ rc[4] = "-"
                 /\ \A i \in {1, 2, 3, 5, 6, 7} :
                        \/ \E u \in 1..Len(UPPER) : rc[i] = UPPER[u]
                        \/ \E d \in 1..Len(DIGITS) : rc[i] = DIGITS[d]
                 /\ last'.ok
                       => from_game' = Append(from_game,
                                              [type |-> "Host", room_code |-> rc])
                 /\ last'.arg.text =
                       <<"R", "o", "o", "m", " ", "C", "o", "d", "e", ":", " ">> \o rc]_vars

\* Lower-case samples: the code sent and queued is their upper-case form.
C17_Witness ==
    /\ last.op = "setup_host_menu"
    /\ last.arg.samples = <<"a", "z", "A", "Z", "0", "9">>
    /\ from_game = <<[type |-> "Host",
                      room_code |-> <<"A", "Z", "A", "-", "Z", "0", "9">>]>>
    /\ game_state = "HostMenu"

\* The number of calls named c in a log of calls grouped by Host command.
CallCount(log, c) ==
    Cardinality({ij \in UNION {{<<i, j>> : j \in 1..Len(log[i])} : i \in 1..Len(log)} :
                    log[ij[1]][ij[2]].call = c})

\* C18: Host is not idempotent.  Each Host command the loop handles to its
\* end makes the session receive, in this order, a listen on the relay
\* circuit address, a listen on TCP, a listen on WebSocket, a dial of the
\* bootstrap address and a start-providing for the key made of the prefix
\* and the room code, whatever it received before; after n such commands it
\* has received 3n listens, n dials and n start-providings.
C18_HostNotIdempotent ==
    [][(last'.op = "command" /\ last'.arg.type = "Host" /\ last'.ok)
          => LET n == Len(requests')
             IN  /\ n = Len(requests) + 1
                 /\ SubSeq(requests', 1, n - 1) = requests
                 /\ requests'[n] =
                       << [call |-> "listen_on", arg |-> RELAY_CIRCUIT_ADDR],
                          [call |-> "listen_on", arg |-> TCP_ADDR],
                          [call |-> "listen_on", arg |-> WS_ADDR],
                          [call |-> "dial", arg |-> BOOTSTRAP_ADDR],
                          [call |-> "start_providing",
                           arg |-> ROOM_KEY_PREFIX \o last'.arg.room_code] >>
                 /\ CallCount(requests', "listen_on") = 3 * n
                 /\ CallCount(requests', "dial") = n
                 /\ CallCount(requests', "start_providing") = n]_vars

\* C19: only Quit stops the loop.  A step after which the loop no longer
\* runs is the step that handles a Quit command; handling a Host command, a
\* Game command or a session event leaves it running.
C19_OnlyQuitStops ==
    [][(engine = "Running" /\ engine' # "Running")
          => (last'.op = "command" /\ last'.arg.type = "Quit")]_vars

\* C20: every command is eventually handled (checked under LoopFairSpec).
\* While the loop runs, a queued command is eventually taken by the loop,
\* also when session events keep being ready (unless the loop has stopped
\* running, or the model's bound on handled Host commands is reached).
C20_CommandsHandled ==
    (engine = "Running" /\ from_game # <<>>)
        ~> \/ last.op = "command"
           \/ engine # "Running"
           \/ Len(requests) >= MaxHosts

\* The same room code hosted twice: the second command repeats every call.
C18_Witness ==
    /\ engine = "Running"
    /\ last.op = "command" /\ last.arg.type = "Host" /\ last.ok
    /\ Len(requests) = 2
    /\ requests[1] = requests[2]
    /\ CallCount(requests, "listen_on") = 6

(***************************************************************************)
(* The ring under concurrent callers (SpecLock).                           *)
(***************************************************************************)
IsPrefix(a, b) == Len(a) <= Len(b) /\ SubSeq(b, 1, Len(a)) = a

\* A thread inside a call that waits for a guard it cannot get now; every
\* other step of a call has no condition.
Blocked(t) ==
    \/ th[t].pc = "write" /\ ~CanWrite(rw)
    \/ th[t].pc = "read" /\ ~CanRead(rw)

\* C21: add_key is safe under concurrent readers.  An encode that returned
\* used a key that was the last key of the ring at some moment of the call;
\* an encode or decode that returned read a ring that extends the ring left
\* by every add_key that had returned before the call began (so a message
\* under such a key decodes); no call read the ring while the writer held
\* the lock; and whenever a thread is inside a call, some thread inside a
\* call can take its next step.
C21_AddKeySafe ==
    /\ th["enc"].pc = "returned" => th["enc"].used \in th["enc"].lasts
    /\ \A t \in {"enc", "dec"} :
          th[t].pc = "returned"
              => /\ IsPrefix(th[t].must, th[t].seen)
                 /\ ~th[t].torn
    /\ (th["dec"].pc = "returned" /\ th["dec"].k \in Range(th["dec"].must))
          => th["dec"].kind = "Ok"
    /\ (\E t \in Threads : InCall(t))
          => \E t \in Threads : InCall(t) /\ ~Blocked(t)
    /\ rw.writer # "none" => rw.readers = {}

\* An encode during which add_key pushed a second, different key has
\* returned, and a decode that began after that add_key had returned has
\* decoded a message under the new key.
C21_Witness ==
    /\ Len(keys) = 2 /\ keys[1] # keys[2]
    /\ th["enc"].pc = "returned" /\ Cardinality(th["enc"].lasts) = 2
    /\ th["dec"].pc = "returned" /\ th["dec"].must = keys
    /\ th["dec"].k = keys[2] /\ th["dec"].kind = "Ok"

(***************************************************************************)
(* The application's peer set (SpecPeers).                                 *)
(***************************************************************************)
\* The peers with an open connection on which identify has shown our protocol.
IdentifiedPeers == {x.peer : x \in {y \in conns : y.identified}}

\* C22: the application's peer set tracks identified connections.  When no
\* event is left in the event channel or unread by peer_add_remove, Peers
\* holds exactly the peers that have an open, identified connection.
C22_PeersTrackConnections ==
    (from_network = <<>> /\ network_events = <<>>) => peers = IdentifiedPeers

(***************************************************************************)
(* Shutdown (SpecClose).                                                   *)
(***************************************************************************)
\* C23: the shutdown path's assertion holds.  Every send of Quit made by
\* send_quit_on_close succeeds, a second one after an earlier Quit included.
C23_QuitSendSucceeds ==
    last.op = "send_quit_on_close" => last.ok

====
